---- MODULE Spec2Model ----
(***************************************************************************)
(* A model of telegame-backend (src/main.go): the configuration loader,    *)
(* the start-up sequence of main, the update listener goroutine, the HTTP  *)
(* handlers behind the ServeMux, and the signal / fatal-error exits.       *)
(*                                                                         *)
(* Strings of the program are TLA+ strings.  The external collaborators    *)
(* (config.yaml on disk, the environment, the Telegram client, the         *)
(* listening socket, the operating system's signals) are inputs chosen     *)
(* nondeterministically.                                                   *)
(***************************************************************************)
EXTENDS Integers, Sequences, FiniteSets, TLC

VARIABLES
    file,       \* config.yaml as found on disk: [status, cfg]
    env,        \* the process environment: the four variables main reads
    config,     \* main's local variable `config` (main.go:52)
    pkgConfig,  \* the package-level variable `config` (main.go:46-48)
    pc,         \* position of the main goroutine
    bot,        \* main's local `bot`: "nil" or "bot"
    listener,   \* update-listener goroutine: "none", "running", "stopped"
    routes,     \* patterns registered on the ServeMux
    server,     \* [state, addr] of the http.Server goroutine
    alive,      \* the process is running
    exitBy,     \* what ended the process ("" while alive)
    quit,       \* number of signals buffered in the quit channel (cap 1)
    resp,       \* the last HTTP exchange: request and response
    nreq,       \* number of HTTP requests handled
    sent,       \* every Send attempted on the Telegram client, in order
    delivered   \* every update received from the updates channel, in order

vars == <<file, env, config, pkgConfig, pc, bot, listener, routes, server,
          alive, exitBy, quit, resp, nreq, sent, delivered>>

----------------------------------------------------------------------------
(* Bounds of the model *)

\* longest generated chat_id string (over Alphabet)
MaxLen == 2
\* HTTP requests handled in one run
MaxRequests == 1
\* updates received in one run
MaxUpdates == 2

----------------------------------------------------------------------------
(* Configuration: type Config and loadConfig *)

DefaultPort == "8080"
DefaultGameURL == "https://kuvaev.me/telegame/"

Tokens == {"", "123:tok"}
ShortNames == {"", "mygame"}
Ports == {"", "9090"}
GameURLs == {"", "https://g.example/play"}

\* type Config struct: four string fields
Config == [TelegramToken : Tokens, GameShortName : ShortNames,
           Port : Ports \cup {DefaultPort}, GameURL : GameURLs \cup {DefaultGameURL}]

\* `var cfg Config` / `var config Config`: the zero value
ZeroConfig == [TelegramToken |-> "", GameShortName |-> "", Port |-> "", GameURL |-> ""]

\* what a config.yaml (or a decodable part of one) can hold
FileConfigs == [TelegramToken : Tokens, GameShortName : ShortNames,
                Port : Ports, GameURL : GameURLs]

\* config.yaml on disk.  "malformed": yaml.Unmarshal fails; cfg then holds
\* whatever fields were decoded into the struct before the error.
Files == {[status |-> "absent", cfg |-> ZeroConfig],
          [status |-> "unreadable", cfg |-> ZeroConfig]}
         \cup [status : {"malformed", "ok"}, cfg : FileConfigs]

\* the environment; os.Getenv gives "" for an unset and for an empty variable
Envs == [TELEGRAM_TOKEN : Tokens, GAME_SHORT_NAME : ShortNames,
         PORT : Ports, GAME_URL : GameURLs]

EmptyEnv == [TELEGRAM_TOKEN |-> "", GAME_SHORT_NAME |-> "", PORT |-> "", GAME_URL |-> ""]

\* loadConfig: (cfg, err)
loadConfig(f) ==
    IF f.status = "absent" THEN [cfg |-> ZeroConfig, err |-> "config.yaml not found"]
    ELSE IF f.status = "unreadable" THEN [cfg |-> ZeroConfig, err |-> "error reading config"]
    ELSE IF f.status = "malformed" THEN [cfg |-> f.cfg, err |-> "error parsing YAML"]
    ELSE [cfg |-> f.cfg, err |-> ""]

\* a variant that keeps the fields a malformed file did decode and fills
\* only the empty ones from the environment
FallbackKeepingParsed(loaded, e) ==
    LET pick(a, b) == IF a # "" THEN a ELSE b
        port == pick(loaded.Port, e.PORT)
        url == pick(loaded.GameURL, e.GAME_URL)
    IN [TelegramToken |-> pick(loaded.TelegramToken, e.TELEGRAM_TOKEN),
        GameShortName |-> pick(loaded.GameShortName, e.GAME_SHORT_NAME),
        Port |-> IF port = "" THEN DefaultPort ELSE port,
        GameURL |-> IF url = "" THEN DefaultGameURL ELSE url]

\* main.go:57-68: the configuration built from the environment when
\* loadConfig failed (`loaded` is the cfg loadConfig returned with its error)
Fallback(loaded, e) ==
    [TelegramToken |-> e.TELEGRAM_TOKEN,
     GameShortName |-> e.GAME_SHORT_NAME,
     Port |-> IF e.PORT = "" THEN DefaultPort ELSE e.PORT,
     GameURL |-> IF e.GAME_URL = "" THEN DefaultGameURL ELSE e.GAME_URL]

\* main.go:52-69: the value of main's `config` after the load block
EffectiveConfig(f, e) ==
    LET r == loadConfig(f)
    IN IF r.err # "" THEN Fallback(r.cfg, e) ELSE r.cfg

----------------------------------------------------------------------------
(* Strings: fmt.Sscanf(chatIDStr, "%d", &chatID) and strconv.ParseInt *)

Char(s, i) == SubSeq(s, i, i)

DecimalDigits == "0123456789"
DigitChars == {Char(DecimalDigits, i) : i \in 1..Len(DecimalDigits)}
SignChars == {"+", "-"}
SpaceChars == {" "}

DigitVal(c) == CHOOSE v \in 0..9 : Char(DecimalDigits, v + 1) = c

\* ss.SkipSpace from position i: the first position that holds no space
RECURSIVE SkipSpace(_, _)
SkipSpace(s, i) ==
    IF i <= Len(s) /\ Char(s, i) \in SpaceChars THEN SkipSpace(s, i + 1) ELSE i

\* `for s.accept(digits) {}`: the first position from i that holds no digit
RECURSIVE AcceptDigits(_, _)
AcceptDigits(s, i) ==
    IF i <= Len(s) /\ Char(s, i) \in DigitChars THEN AcceptDigits(s, i + 1) ELSE i

\* a digit string without its leading zeros ("0" for zero)
RECURSIVE StripZeros(_)
StripZeros(d) ==
    IF Len(d) > 1 /\ Char(d, 1) = "0" THEN StripZeros(SubSeq(d, 2, Len(d))) ELSE d

\* a <= b for digit strings of equal length
RECURSIVE DigitsLE(_, _)
DigitsLE(a, b) ==
    IF Len(a) = 0 THEN TRUE
    ELSE IF DigitVal(Char(a, 1)) < DigitVal(Char(b, 1)) THEN TRUE
    ELSE IF DigitVal(Char(a, 1)) > DigitVal(Char(b, 1)) THEN FALSE
    ELSE DigitsLE(SubSeq(a, 2, Len(a)), SubSeq(b, 2, Len(b)))

\* magnitudes of math.MaxInt64 and math.MinInt64
MaxInt64Digits == "9223372036854775807"
MinInt64Digits == "9223372036854775808"

\* the magnitude mag (no leading zeros) with sign neg fits an int64
FitsInt64(neg, mag) ==
    LET lim == IF neg THEN MinInt64Digits ELSE MaxInt64Digits
    IN \/ Len(mag) < Len(lim)
       \/ Len(mag) = Len(lim) /\ DigitsLE(mag, lim)

\* An int64 is written as its canonical decimal numeral.
Numeral(neg, mag) == IF neg /\ mag # "0" THEN "-" \o mag ELSE mag

\* strconv.ParseInt(tok, 10, 64): [err, val]
ParseInt(tok) ==
    LET signed == Len(tok) > 0 /\ Char(tok, 1) \in SignChars
        neg == signed /\ Char(tok, 1) = "-"
        d == IF signed THEN SubSeq(tok, 2, Len(tok)) ELSE tok
        mag == StripZeros(d)
    IN IF Len(d) = 0 \/ AcceptDigits(d, 1) <= Len(d)
         THEN [err |-> "invalid syntax", val |-> "0"]
       ELSE IF ~FitsInt64(neg, mag)
         THEN [err |-> "value out of range", val |-> "0"]
       ELSE [err |-> "", val |-> Numeral(neg, mag)]

\* fmt.Sscanf(s, "%d", &v): [err, val].  Leading spaces are skipped, an
\* optional sign and a run of decimal digits form the token, the token goes
\* through strconv.ParseInt; input after the token is not looked at.
Sscanf(s) ==
    LET start == SkipSpace(s, 1)
        afterSign == IF start <= Len(s) /\ Char(s, start) \in SignChars
                     THEN start + 1 ELSE start
        stop == AcceptDigits(s, afterSign)
    IN IF start > Len(s) THEN [err |-> "unexpected EOF", val |-> "0"]
       ELSE IF afterSign > Len(s) THEN [err |-> "unexpected EOF", val |-> "0"]
       ELSE IF stop = afterSign THEN [err |-> "expected integer", val |-> "0"]
       ELSE ParseInt(SubSeq(s, start, stop - 1))

\* characters the generated chat_id strings are made of
Alphabet == {"7", "a", " "}

RECURSIVE Strs(_)
Strs(n) == IF n = 0 THEN {""}
           ELSE Strs(n - 1) \cup {s \o c : s \in Strs(n - 1), c \in Alphabet}

\* chat_id values as r.URL.Query().Get("chat_id") returns them; "" stands
\* for a missing and for an empty parameter
ChatIDStrs == Strs(MaxLen) \cup
    {"123", "abc", "12abc", "+5", "-7", "-", "007", "-0", "5 5",
     "9223372036854775807", "9223372036854775808",
     "-9223372036854775808", "-9223372036854775809"}

----------------------------------------------------------------------------
(* HTTP: requests, the ServeMux, the handlers *)

Methods == {"GET", "POST"}
RootPath == "/"
GamePath == "/game"
SendGamePath == "/api/send-game"
Paths == {RootPath, GamePath, SendGamePath, "/other"}

\* a request: method, URL path, and the value of the chat_id query
\* parameter (only handleSendGame reads the query)
Requests == [method : Methods, path : Paths \ {SendGamePath}, chat_id : {""}]
            \cup [method : Methods, path : {SendGamePath}, chat_id : ChatIDStrs]

\* before the first request
NoResp == [req |-> [method |-> "", path |-> "", chat_id |-> ""],
           status |-> 0, body |-> "", ctype |-> "", location |-> ""]

Response(status, body, ctype, location) ==
    [status |-> status, body |-> body, ctype |-> ctype, location |-> location]

\* http.Error
Error(msg, code) == Response(code, msg \o "\n", "text/plain; charset=utf-8", "")

\* http.NotFound
NotFound == Error("404 page not found", 404)

\* ServeMux: a pattern ending in "/" names a subtree, any other a single path
PatternMatches(pattern, path) ==
    IF Char(pattern, Len(pattern)) = "/"
    THEN Len(path) >= Len(pattern) /\ SubSeq(path, 1, Len(pattern)) = pattern
    ELSE path = pattern

\* ServeMux: the most specific (longest) registered pattern that matches
MuxPattern(registered, path) ==
    LET m == {p \in registered : PatternMatches(p, path)}
    IN IF m = {} THEN "" ELSE CHOOSE p \in m : \A q \in m : Len(q) <= Len(p)

\* url.Parse(url) finds a scheme or a host
RECURSIVE HasSchemeFrom(_, _)
HasSchemeFrom(url, i) ==
    IF i + 2 > Len(url) THEN FALSE
    ELSE IF SubSeq(url, i, i + 2) = "://" THEN i > 1
    ELSE IF Char(url, i) = "/" THEN FALSE
    ELSE HasSchemeFrom(url, i + 1)

HasSchemeOrHost(url) ==
    \/ HasSchemeFrom(url, 1)
    \/ Len(url) >= 2 /\ SubSeq(url, 1, 2) = "//"

\* path.Split(p): the part of p up to and including its last slash
RECURSIVE PathDir(_)
PathDir(p) ==
    IF Len(p) = 0 \/ Char(p, Len(p)) = "/" THEN p
    ELSE PathDir(SubSeq(p, 1, Len(p) - 1))

\* http.Redirect: the Location it sets.  A URL without scheme and host is
\* made absolute against the request path; path.Clean leaves the paths of
\* this model as they are (none holds ".", ".." or an empty segment).
RedirectLocation(url, oldpath) ==
    IF HasSchemeOrHost(url) THEN url
    ELSE IF url = "" \/ Char(url, 1) # "/" THEN PathDir(oldpath) \o url
    ELSE url

\* handleRoot
handleRoot(req) ==
    IF req.path # "/" THEN NotFound
    ELSE Response(200, "Telegram Game Backend is running!",
                  "text/plain; charset=utf-8", "")

\* handleGame: `config` here is the package-level variable; the response
\* body http.Redirect writes is left out
handleGame(req) ==
    Response(302, "", "", RedirectLocation(pkgConfig.GameURL, req.path))

\* tgbotapi.GameConfig{BaseChat{ChatID}, GameShortName}
GameConfig(chatID, gameShortName) ==
    [kind |-> "game", chat |-> chatID, shortName |-> gameShortName]

Success == Response(200, "{\"success\": true}", "application/json", "")

\* a handler that sends a second time when the first send failed
handleSendGameRetry(req, gameShortName, sendOK) ==
    LET scan == Sscanf(req.chat_id)
        msg == GameConfig(scan.val, gameShortName)
    IN IF req.method # "POST"
         THEN [resp |-> Error("Method not allowed", 405), sends |-> <<>>]
       ELSE IF req.chat_id = ""
         THEN [resp |-> Error("Missing chat_id parameter", 400), sends |-> <<>>]
       ELSE IF scan.err # ""
         THEN [resp |-> Error("Invalid chat_id parameter", 400), sends |-> <<>>]
       ELSE IF ~sendOK
         THEN [resp |-> Error("Failed to send game", 500),
               sends |-> <<[msg |-> msg, ok |-> FALSE], [msg |-> msg, ok |-> FALSE]>>]
       ELSE [resp |-> Success, sends |-> <<[msg |-> msg, ok |-> TRUE]>>]

\* a handler that looks at chat_id before it looks at the method
handleSendGameChatFirst(req, gameShortName, sendOK) ==
    LET scan == Sscanf(req.chat_id)
        msg == GameConfig(scan.val, gameShortName)
    IN IF req.chat_id = ""
         THEN [resp |-> Error("Missing chat_id parameter", 400), sends |-> <<>>]
       ELSE IF scan.err # ""
         THEN [resp |-> Error("Invalid chat_id parameter", 400), sends |-> <<>>]
       ELSE IF req.method # "POST"
         THEN [resp |-> Error("Method not allowed", 405), sends |-> <<>>]
       ELSE IF ~sendOK
         THEN [resp |-> Error("Failed to send game", 500),
               sends |-> <<[msg |-> msg, ok |-> FALSE]>>]
       ELSE [resp |-> Success, sends |-> <<[msg |-> msg, ok |-> TRUE]>>]

\* handleSendGame: the response, and the sends made on the client with
\* their outcome (sendOK: the outcome bot.Send has if it is called)
handleSendGame(req, gameShortName, sendOK) ==
    LET scan == Sscanf(req.chat_id)
        msg == GameConfig(scan.val, gameShortName)
    IN IF req.method # "POST"
         THEN [resp |-> Error("Method not allowed", 405), sends |-> <<>>]
       ELSE IF req.chat_id = ""
         THEN [resp |-> Error("Missing chat_id parameter", 400), sends |-> <<>>]
       ELSE IF scan.err # ""
         THEN [resp |-> Error("Invalid chat_id parameter", 400), sends |-> <<>>]
       ELSE IF ~sendOK
         THEN [resp |-> Error("Failed to send game", 500),
               sends |-> <<[msg |-> msg, ok |-> FALSE]>>]
       ELSE [resp |-> Success, sends |-> <<[msg |-> msg, ok |-> TRUE]>>]

\* the server's answer to req: the handler of the matching pattern runs
Serve(req, sendOK) ==
    LET pattern == MuxPattern(routes, req.path)
    IN IF pattern = SendGamePath
         THEN handleSendGame(req, config.GameShortName, sendOK)
       ELSE IF pattern = GamePath
         THEN [resp |-> handleGame(req), sends |-> <<>>]
       ELSE IF pattern = RootPath
         THEN [resp |-> handleRoot(req), sends |-> <<>>]
       ELSE [resp |-> NotFound, sends |-> <<>>]

----------------------------------------------------------------------------
(* The update listener: the goroutine ranging over the updates channel *)

Chats == {"101", "-202"}
Commands == {"start", "game", "help"}

\* an update as the loop reads it: whether update.Message is non-nil, and
\* of the message its Chat.ID, IsCommand() and Command()
Updates == {[hasMessage |-> FALSE, chat |-> "0", isCommand |-> FALSE, command |-> ""]}
           \cup {[hasMessage |-> TRUE, chat |-> c, isCommand |-> FALSE, command |-> ""] :
                    c \in Chats}
           \cup {[hasMessage |-> TRUE, chat |-> c, isCommand |-> TRUE, command |-> k] :
                    c \in Chats, k \in Commands}

\* tgbotapi.NewMessage(chatID, text): no reply markup
NewMessage(chatID, text) ==
    [kind |-> "message", chat |-> chatID, text |-> text, markup |-> <<>>]

\* NewInlineKeyboardMarkup(NewInlineKeyboardRow(NewInlineKeyboardButtonURL(text, url)))
PlayNowMarkup(url) == << <<[text |-> "Play now", url |-> url]>> >>

\* the dispatch of an older revision: start carries the button, game is
\* not a known command
ReplyOld(m, cfg) ==
    LET msg == NewMessage(m.chat, "")
    IN IF m.command = "start"
         THEN [msg EXCEPT !.text = "Welcome to the Telegram game bot!",
                          !.markup = PlayNowMarkup(cfg.GameURL)]
       ELSE [msg EXCEPT !.text = "Unknown command"]

\* main.go:89-102: the message built for command message m
Reply(m, cfg) ==
    LET msg == NewMessage(m.chat, "")
    IN IF m.command = "start"
         THEN [msg EXCEPT !.text = "Welcome to the game! Use /game to play"]
       ELSE IF m.command = "game"
         THEN [msg EXCEPT !.text = "Starting the game...",
                          !.markup = PlayNowMarkup(cfg.GameURL)]
       ELSE [msg EXCEPT !.text = "Unknown command"]

\* main.go:87-105, one iteration of the loop: the sends it makes
ListenerSends(u, cfg, sendOK) ==
    IF u.hasMessage /\ u.isCommand
    THEN <<[msg |-> Reply(u, cfg), ok |-> sendOK]>>
    ELSE <<>>

----------------------------------------------------------------------------
(* main *)

\* the route is registered whenever a game short name is configured
RegistersSendGameNameOnly(b, cfg) == cfg.GameShortName # ""

\* the route is registered whenever the bot is initialised
RegistersSendGameBotOnly(b, cfg) == b # "nil"

\* main.go:120: `bot != nil && config.GameShortName != ""`
RegistersSendGame(b, cfg) == b # "nil" /\ cfg.GameShortName # ""

StartState(f, e) ==
    /\ file = f
    /\ env = e
    /\ config = ZeroConfig
    /\ pkgConfig = ZeroConfig
    /\ pc = "load"
    /\ bot = "nil"
    /\ listener = "none"
    /\ routes = {}
    /\ server = [state |-> "none", addr |-> ""]
    /\ alive = TRUE
    /\ exitBy = ""
    /\ quit = 0
    /\ resp = NoResp
    /\ nreq = 0
    /\ sent = <<>>
    /\ delivered = <<>>

\* main.go:52-69.  `config, err := loadConfig()` declares a new local
\* config; the package-level variable is not assigned.
LoadConfig ==
    /\ alive /\ pc = "load"
    /\ config' = EffectiveConfig(file, env)
    /\ pc' = "initbot"
    /\ UNCHANGED <<file, env, pkgConfig, bot, listener, routes, server, alive,
                   exitBy, quit, resp, nreq, sent, delivered>>

\* main.go:71-110.  authOK: tgbotapi.NewBotAPI returns a bot and no error;
\* on an error it returns a nil bot.
InitBot(authOK) ==
    /\ alive /\ pc = "initbot"
    /\ IF config.TelegramToken # "" /\ authOK
       THEN bot' = "bot" /\ listener' = "running"
       ELSE bot' = "nil" /\ listener' = "none"
    /\ pc' = "routes"
    /\ UNCHANGED <<file, env, config, pkgConfig, routes, server, alive, exitBy,
                   quit, resp, nreq, sent, delivered>>

\* main.go:112-138: the mux, the routes, the server and its goroutine
SetupServer ==
    /\ alive /\ pc = "routes"
    /\ routes' = {RootPath, GamePath}
                 \cup (IF RegistersSendGame(bot, config) THEN {SendGamePath} ELSE {})
    /\ server' = [state |-> "starting", addr |-> ":" \o config.Port]
    /\ pc' = "notify"
    /\ UNCHANGED <<file, env, config, pkgConfig, bot, listener, alive, exitBy,
                   quit, resp, nreq, sent, delivered>>

\* main.go:141-142: signal.Notify(quit, SIGINT, SIGTERM); main then blocks
\* on <-quit
Notify ==
    /\ alive /\ pc = "notify"
    /\ pc' = "wait"
    /\ UNCHANGED <<file, env, config, pkgConfig, bot, listener, routes, server,
                   alive, exitBy, quit, resp, nreq, sent, delivered>>

\* main.go:135: ListenAndServe bound the address and accepts connections
ServerListen ==
    /\ alive /\ server.state = "starting"
    /\ server' = [server EXCEPT !.state = "listening"]
    /\ UNCHANGED <<file, env, config, pkgConfig, pc, bot, listener, routes,
                   alive, exitBy, quit, resp, nreq, sent, delivered>>

\* main.go:135: ListenAndServe returned an error (the address cannot be
\* bound, or the listener failed)
ServerError ==
    /\ alive /\ server.state \in {"starting", "listening"}
    /\ server' = [server EXCEPT !.state = "failed"]
    /\ UNCHANGED <<file, env, config, pkgConfig, pc, bot, listener, routes,
                   alive, exitBy, quit, resp, nreq, sent, delivered>>

\* main.go:136: log.Fatalf ends the process
ServerFatal ==
    /\ alive /\ server.state = "failed"
    /\ alive' = FALSE
    /\ exitBy' = "fatal"
    /\ UNCHANGED <<file, env, config, pkgConfig, pc, bot, listener, routes,
                   server, quit, resp, nreq, sent, delivered>>

\* SIGINT or SIGTERM is delivered.  Once signal.Notify is in place the
\* signal goes to the quit channel (capacity 1, a signal that finds it full
\* is dropped); before that its default action ends the process.
Signal ==
    /\ alive
    /\ IF pc = "wait"
       THEN /\ quit' = 1
            /\ UNCHANGED <<alive, exitBy>>
       ELSE /\ alive' = FALSE
            /\ exitBy' = "signal-default"
            /\ UNCHANGED quit
    /\ UNCHANGED <<file, env, config, pkgConfig, pc, bot, listener, routes,
                   server, resp, nreq, sent, delivered>>

\* main.go:143-146: <-quit returns, main logs and returns; the process ends
\* with the server and the listener left as they are
MainReturn ==
    /\ alive /\ pc = "wait" /\ quit > 0
    /\ quit' = quit - 1
    /\ pc' = "returned"
    /\ alive' = FALSE
    /\ exitBy' = "main-return"
    /\ UNCHANGED <<file, env, config, pkgConfig, bot, listener, routes, server,
                   resp, nreq, sent, delivered>>

\* the server handles one request
HandleRequest(req, sendOK) ==
    /\ alive /\ server.state = "listening"
    /\ nreq < MaxRequests
    /\ LET r == Serve(req, sendOK)
       IN /\ resp' = [req |-> req, status |-> r.resp.status, body |-> r.resp.body,
                      ctype |-> r.resp.ctype, location |-> r.resp.location]
          /\ sent' = sent \o r.sends
    /\ nreq' = nreq + 1
    /\ UNCHANGED <<file, env, config, pkgConfig, pc, bot, listener, routes,
                   server, alive, exitBy, quit, delivered>>

\* main.go:87-105: the listener receives update u and handles it
ReceiveUpdate(u, sendOK) ==
    /\ alive /\ listener = "running"
    /\ Len(delivered) < MaxUpdates
    /\ delivered' = Append(delivered, u)
    /\ sent' = sent \o ListenerSends(u, config, sendOK)
    /\ UNCHANGED <<file, env, config, pkgConfig, pc, bot, listener, routes,
                   server, alive, exitBy, quit, resp, nreq>>

\* the end of the listener goroutine brings the process down
UpdatesClosedExits ==
    /\ alive /\ listener = "running"
    /\ listener' = "stopped"
    /\ alive' = FALSE
    /\ exitBy' = "listener"
    /\ UNCHANGED <<file, env, config, pkgConfig, pc, bot, routes, server,
                   quit, resp, nreq, sent, delivered>>

\* main.go:87: the updates channel is closed, the range loop and the
\* goroutine end
UpdatesClosed ==
    /\ alive /\ listener = "running"
    /\ listener' = "stopped"
    /\ UNCHANGED <<file, env, config, pkgConfig, pc, bot, routes, server,
                   alive, exitBy, quit, resp, nreq, sent, delivered>>

----------------------------------------------------------------------------
(* Specifications *)

\* every config.yaml and every environment
Init == \E f \in Files, e \in Envs : StartState(f, e)

\* every configuration a parsed file gives, and every configuration the
\* environment fallback gives
InitServing ==
    \/ \E c \in FileConfigs : StartState([status |-> "ok", cfg |-> c], EmptyEnv)
    \/ \E e \in Envs : StartState([status |-> "absent", cfg |-> ZeroConfig], e)

\* a file with every field, and no file with nothing set in the environment
InitLive ==
    \/ StartState([status |-> "ok",
                   cfg |-> [TelegramToken |-> "123:tok", GameShortName |-> "mygame",
                            Port |-> "9090", GameURL |-> "https://g.example/play"]],
                  EmptyEnv)
    \/ StartState([status |-> "absent", cfg |-> ZeroConfig], EmptyEnv)

\* main up to its wait for a signal, and the start of the server
NextStart ==
    \/ LoadConfig
    \/ \E authOK \in BOOLEAN : InitBot(authOK)
    \/ SetupServer
    \/ Notify
    \/ ServerListen

\* the ways the process ends
NextExit ==
    \/ ServerError
    \/ ServerFatal
    \/ Signal
    \/ MainReturn

NextMain ==
    \/ NextStart
    \/ NextExit

NextHttp ==
    \/ NextStart
    \/ \E req \in Requests, sendOK \in BOOLEAN : HandleRequest(req, sendOK)

NextListener ==
    \/ NextStart
    \/ \E u \in Updates, sendOK \in BOOLEAN : ReceiveUpdate(u, sendOK)
    \/ UpdatesClosed

\* requests and updates of the whole-process specification
LiveRequests == {r \in Requests : r.method = "POST" /\ r.chat_id \in {"", "123"}}
LiveUpdates == {u \in Updates : ~u.hasMessage \/ (u.chat = "101" /\ u.command = "game")}

Next ==
    \/ NextMain
    \/ \E req \in LiveRequests, sendOK \in BOOLEAN : HandleRequest(req, sendOK)
    \/ \E u \in LiveUpdates, sendOK \in BOOLEAN : ReceiveUpdate(u, sendOK)
    \/ UpdatesClosed

\* start-up and lifecycle, over every file and environment
Spec == Init /\ [][NextMain]_vars

\* the HTTP service of a running process
SpecHttp == InitServing /\ [][NextHttp]_vars

\* the update listener of a running process
SpecListener == InitServing /\ [][NextListener]_vars

\* the whole process.  The Go scheduler runs a runnable goroutine: main
\* after a signal is in the quit channel, the server goroutine after
\* ListenAndServe returned.
SpecLive == InitLive /\ [][Next]_vars /\ WF_vars(MainReturn) /\ WF_vars(ServerFatal)

----------------------------------------------------------------------------
(* Properties *)

\* s, taken in full, is the decimal text of a 64-bit integer
ParsesAsInt64(s) == ParseInt(s).err = ""

\* this step handled a request to path p
Handled(p) == nreq' = nreq + 1 /\ resp'.req.path = p

\* C1: every request to /game is answered 302 with the game URL of the
\* loaded configuration (the one the listener puts in its button) as target.
C1_GameRedirectsToConfiguredURL ==
    (nreq > 0 /\ resp.req.path = GamePath)
        => (resp.status = 302 /\ resp.location = config.GameURL)

\* C2: a POST to the registered /api/send-game whose chat_id is missing,
\* empty or not in full the text of a 64-bit integer is answered 400 and
\* makes no send.
C2_BadChatIdRejected ==
    [][(/\ Handled(SendGamePath)
        /\ SendGamePath \in routes
        /\ resp'.req.method = "POST"
        /\ ~ParsesAsInt64(resp'.req.chat_id))
       => (resp'.status = 400 /\ sent' = sent)]_vars

\* C3: a POST to the registered /api/send-game with a chat_id that parses
\* as a 64-bit integer makes exactly one send, of a game message with that
\* chat id and the configured short name; the answer is 200 with body
\* {"success": true} if the send succeeded and 500 if it failed.
C3_ValidChatIdSendsOnce ==
    [][(/\ Handled(SendGamePath)
        /\ SendGamePath \in routes
        /\ resp'.req.method = "POST"
        /\ ParsesAsInt64(resp'.req.chat_id))
       => (/\ Len(sent') = Len(sent) + 1
           /\ SubSeq(sent', 1, Len(sent)) = sent
           /\ sent'[Len(sent')].msg =
                [kind |-> "game", chat |-> ParseInt(resp'.req.chat_id).val,
                 shortName |-> config.GameShortName]
           /\ IF sent'[Len(sent')].ok
              THEN resp'.status = 200 /\ resp'.body = "{\"success\": true}"
              ELSE resp'.status = 500)]_vars

C3_Witness ==
    /\ nreq > 0 /\ resp.req.path = SendGamePath /\ resp.req.method = "POST"
    /\ resp.req.chat_id = "-9223372036854775808"
    /\ Len(sent) = 1 /\ ~sent[1].ok /\ resp.status = 500

\* C4: /api/send-game is registered only when a token and a game short
\* name are configured; when either is empty every request to it is
\* answered 404 and makes no send.
C4_RouteOnlyWhenConfigured ==
    [][/\ SendGamePath \in routes'
            => (config'.TelegramToken # "" /\ config'.GameShortName # "")
       /\ (Handled(SendGamePath)
             /\ (config.TelegramToken = "" \/ config.GameShortName = ""))
            => (resp'.status = 404 /\ sent' = sent)]_vars

C4_Witness ==
    /\ nreq > 0 /\ resp.req.path = SendGamePath /\ resp.req.method = "POST"
    /\ resp.req.chat_id = "123"
    /\ bot = "bot" /\ config.GameShortName = ""
    /\ resp.status = 404 /\ sent = <<>>

\* C5: after the load, the configuration is the file's when config.yaml
\* parses (whatever the environment holds), and otherwise the
\* environment's, with port "8080" and the default game URL for an unset
\* PORT and GAME_URL; nothing of a malformed file is in it.
C5_EffectiveConfiguration ==
    pc # "load" =>
        IF file.status = "ok"
        THEN config = file.cfg
        ELSE config = [TelegramToken |-> env.TELEGRAM_TOKEN,
                       GameShortName |-> env.GAME_SHORT_NAME,
                       Port |-> IF env.PORT = "" THEN "8080" ELSE env.PORT,
                       GameURL |-> IF env.GAME_URL = ""
                                   THEN "https://kuvaev.me/telegame/"
                                   ELSE env.GAME_URL]

C5_Witness ==
    /\ pc # "load"
    /\ file.status = "malformed"
    /\ file.cfg.TelegramToken # "" /\ file.cfg.Port # "" /\ file.cfg.GameURL # ""
    /\ env = EmptyEnv
    /\ config.TelegramToken = "" /\ config.Port = "8080"

\* C6: when the configuration source in use gives no port (a parsed file
\* without a port field, or the fallback with PORT unset), the server's
\* listen address is ":8080".
C6_PortDefaults ==
    (/\ server.state # "none"
     /\ \/ file.status = "ok" /\ file.cfg.Port = ""
        \/ file.status # "ok" /\ env.PORT = "")
        => server.addr = ":8080"

\* a non-empty token was configured and NewBotAPI failed
AuthFailed == pc \notin {"load", "initbot"} /\ config.TelegramToken # "" /\ bot = "nil"

\* C7: after a failed authentication the process goes on: main can set up
\* the server, / and /game are registered and served, no listener runs and
\* /api/send-game is not registered, short name or not.
C7_AuthFailureNotFatal ==
    AuthFailed =>
        /\ (alive /\ pc = "routes") => ENABLED SetupServer
        /\ listener = "none"
        /\ SendGamePath \notin routes
        /\ server.state # "none" => {RootPath, GamePath} \subseteq routes
        /\ (nreq > 0 /\ resp.req.path = RootPath) => resp.status = 200
        /\ (nreq > 0 /\ resp.req.path = GamePath) => resp.status = 302
        /\ (nreq > 0 /\ resp.req.path = SendGamePath) => resp.status = 404

C7_Witness ==
    /\ AuthFailed /\ config.GameShortName # ""
    /\ nreq > 0 /\ resp.req.path = GamePath /\ resp.status = 302

\* C8: a request to the registered /api/send-game with a method other than
\* POST is answered 405 and makes no send, whatever its chat_id.
C8_PostOnly ==
    [][(/\ Handled(SendGamePath)
        /\ SendGamePath \in routes
        /\ resp'.req.method # "POST")
       => (resp'.status = 405 /\ sent' = sent)]_vars

C8_Witness ==
    /\ nreq > 0 /\ resp.req.path = SendGamePath /\ resp.req.method = "GET"
    /\ resp.req.chat_id = "abc" /\ resp.status = 405 /\ sent = <<>>

\* the reply the dispatch table gives command update u
TableReply(u) ==
    CASE u.command = "start" ->
           [kind |-> "message", chat |-> u.chat,
            text |-> "Welcome to the game! Use /game to play", markup |-> <<>>]
      [] u.command = "game" ->
           [kind |-> "message", chat |-> u.chat, text |-> "Starting the game...",
            markup |-> << <<[text |-> "Play now", url |-> config.GameURL]>> >>]
      [] OTHER ->
           [kind |-> "message", chat |-> u.chat, text |-> "Unknown command",
            markup |-> <<>>]

\* the in-order image of the command messages among us
RECURSIVE TableReplies(_)
TableReplies(us) ==
    IF us = <<>> THEN <<>>
    ELSE (IF Head(us).hasMessage /\ Head(us).isCommand
          THEN <<TableReply(Head(us))>> ELSE <<>>) \o TableReplies(Tail(us))

\* C9: the sends of the listener are, in order, the table's replies to the
\* command messages among the updates received: one per command message,
\* none for other updates, whatever the outcome of earlier sends; and the
\* listener keeps running after each update.
C9_RepliesAreImageOfCommands ==
    [][Len(delivered') = Len(delivered) + 1
       => /\ [i \in 1..Len(sent') |-> sent'[i].msg] = TableReplies(delivered')
          /\ listener' = "running"]_vars

C9_Witness ==
    /\ Len(delivered) = 2 /\ Len(sent) = 2
    /\ ~sent[1].ok
    /\ delivered[1].command = "start"
    /\ delivered[2].command = "game" /\ delivered[2].chat # delivered[1].chat
    /\ config.GameURL = "https://g.example/play"
    /\ listener = "running"

\* C10: once main waits for a signal, the process ends only by main
\* returning after a signal (server and listener left as they are) or by
\* the server's fatal error; a signal in the quit channel and a server
\* error each lead to the end of the process.
C10_Lifecycle ==
    /\ [][(pc = "wait" /\ alive /\ ~alive')
          => \/ quit > 0 /\ exitBy' = "main-return"
                /\ server' = server /\ listener' = listener
             \/ server.state = "failed" /\ exitBy' = "fatal"]_vars
    /\ (pc = "wait" /\ quit > 0) ~> ~alive
    /\ (server.state = "failed") ~> ~alive

C10_Witness ==
    /\ ~alive /\ exitBy = "main-return"
    /\ server.state = "listening" /\ listener = "stopped"
    /\ nreq > 0 /\ resp.status = 400
    /\ \E i \in 1..Len(sent) : ~sent[i].ok

====
